---- MODULE Spec2Model ----
(***************************************************************************)
(* Model of the SillyTavern-ListAllTags extension (src/index.js): the      *)
(* slash commands tag-new, tag-exists-all and tag-list-all over the host's *)
(* shared tag collection, and the helpers getExisting, createNewTag and    *)
(* newTagObj they are built from.                                          *)
(*                                                                         *)
(* A JavaScript string is a sequence of characters; a character is one of  *)
(* the tokens of Alphabet, each standing for one UTF-16 code unit.         *)
(* An optional argument is a record [given, val]; a value that may be      *)
(* undefined (find's result) is a sequence of length 0 or 1.               *)
(***************************************************************************)
EXTENDS Integers, Sequences, FiniteSets, TLC

VARIABLES
    tags,         \* context.tags: the host's ordered collection of Tag records
    saveLog,      \* one entry per saveSettingsDebounced() call: tags.length seen by the call
    pendingSave,  \* the host's debounce timer is armed
    clock,        \* last value returned by Date.now()
    nextId,       \* source of fresh ids (uuidv4)
    cmd,          \* the last invocation: its name,
    arg,          \*   its argument,
    ret,          \*   the "true"/"false" it returned ("" when it returns something else),
    listing,      \*   the string tag-list-all returned,
    retTag,       \*   the Tag createNewTag returned,
    pre,          \*   context.tags as it was when the invocation started,
    preSaves,     \*   the number of save requests issued before it started
    newLog,       \* names for which tag-new answered "true", in call order
    initial       \* the collection the host had loaded before the extension ran

vars == <<tags, saveLog, pendingSave, clock, nextId, cmd, arg, ret, listing,
          retTag, pre, preSaves, newLog, initial>>

----------------------------------------------------------------------------
(* Bounds *)

\* Date.now() is modelled up to this many ticks
MaxClock == 1

\* tag-new and createNewTag are invoked while the collection holds fewer records
MaxTags == 2

----------------------------------------------------------------------------
(* Strings *)

\* the characters: space, comma, A, B, a, b, a-acute (U+00E1), combining acute (U+0301)
Alphabet == {"sp", "comma", "A", "B", "a", "b", "a_acute", "acute"}

\* UTF-16 code unit of a character
CharCode(c) ==
    CASE c = "sp"      -> 32
      [] c = "comma"   -> 44
      [] c = "A"       -> 65
      [] c = "B"       -> 66
      [] c = "a"       -> 97
      [] c = "b"       -> 98
      [] c = "a_acute" -> 225
      [] c = "acute"   -> 769

RECURSIVE FlatMap(_, _)
FlatMap(F(_), s) == IF s = <<>> THEN <<>> ELSE F(Head(s)) \o FlatMap(F, Tail(s))

\* String.prototype.toLowerCase
LowerChar(c) == IF c = "A" THEN <<"a">> ELSE IF c = "B" THEN <<"b">> ELSE <<c>>
toLowerCase(s) == FlatMap(LowerChar, s)

\* String.prototype.normalize('NFD'): canonical decomposition
DecomposeChar(c) == IF c = "a_acute" THEN <<"a", "acute">> ELSE <<c>>
NFD(s) == FlatMap(DecomposeChar, s)

\* replace(/[̀-ͯ]/g, ''): drop the combining marks
StripChar(c) == IF c = "acute" THEN <<>> ELSE <<c>>
StripMarks(s) == FlatMap(StripChar, s)

\* the host's fold: decompose, drop diacritics, lower-case
Normalized(s) == toLowerCase(StripMarks(NFD(s)))

\* host utils.js equalsIgnoreCaseAndAccents(a, b)
equalsIgnoreCaseAndAccents(a, b) == Normalized(a) = Normalized(b)

\* String.prototype.includes
includes(hay, needle) ==
    \E i \in 0..(Len(hay) - Len(needle)) : SubSeq(hay, i + 1, i + Len(needle)) = needle

\* the default comparison of Array.prototype.sort: by UTF-16 code units
RECURSIVE StrLess(_, _)
StrLess(a, b) ==
    IF b = <<>> THEN FALSE
    ELSE IF a = <<>> THEN TRUE
    ELSE IF CharCode(Head(a)) # CharCode(Head(b)) THEN CharCode(Head(a)) < CharCode(Head(b))
    ELSE StrLess(Tail(a), Tail(b))

\* Array.prototype.sort() with no comparator (stable)
RECURSIVE InsertSorted(_, _)
InsertSorted(x, s) ==
    IF s = <<>> THEN <<x>>
    ELSE IF StrLess(x, Head(s)) THEN <<x>> \o s
    ELSE <<Head(s)>> \o InsertSorted(x, Tail(s))

RECURSIVE sort(_)
sort(s) == IF s = <<>> THEN <<>> ELSE InsertSorted(s[Len(s)], sort(SubSeq(s, 1, Len(s) - 1)))

\* Array.prototype.join(', ')
RECURSIVE join(_)
join(s) ==
    IF s = <<>> THEN <<>>
    ELSE IF Len(s) = 1 THEN s[1]
    ELSE s[1] \o <<"comma", "sp">> \o join(Tail(s))

\* Array.prototype.filter / map
RECURSIVE filter(_, _)
filter(P(_), s) ==
    IF s = <<>> THEN <<>>
    ELSE (IF P(Head(s)) THEN <<Head(s)>> ELSE <<>>) \o filter(P, Tail(s))

NamesOf(ts) == [i \in 1..Len(ts) |-> ts[i].name]

\* Math.max over a non-empty set of integers
MathMax(S) == CHOOSE m \in S : \A x \in S : x <= m

\* JavaScript truthiness of a string argument: given and not ""
Truthy(a) == a.given /\ a.val # <<>>

Undefined == [given |-> FALSE, val |-> <<>>]
Str(s) == [given |-> TRUE, val |-> s]

----------------------------------------------------------------------------
(* Inputs *)

\* tag names the commands are invoked with: "", " ", "ab", "AB", "áb", "b", "Ba"
Names ==
    { <<>>, <<"sp">>, <<"a", "b">>, <<"A", "B">>, <<"a_acute", "b">>, <<"b">>, <<"B", "a">> }

\* search patterns: "", "b", "B", "aB", "a"
Searches == { <<>>, <<"b">>, <<"B">>, <<"a", "B">>, <<"a">> }

NameArgs == {Undefined} \cup {Str(n) : n \in Names}
SearchArgs == {Undefined} \cup {Str(s) : s \in Searches}

HostTag(id, name, order) ==
    [id |-> id, name |-> name, folder_type |-> "NONE", filter_state |-> "UNDEFINED",
     sort_order |-> order, color |-> "", color2 |-> "", create_date |-> 0]

\* collections the host may hand over: empty, one tag, three tags the user has reordered
InitialCollections ==
    { <<>>,
      << HostTag(1, <<"B", "a">>, 5) >>,
      << HostTag(1, <<"b">>, 3), HostTag(2, <<"B", "a">>, 1), HostTag(3, <<"A", "B">>, 2) >> }

----------------------------------------------------------------------------
(* The helpers of src/index.js *)

\* getExisting(tagName): tags.find(t => equalsIgnoreCaseAndAccents(t.name, tagName))
\* Array.prototype.find: the first element satisfying P, or undefined
find(P(_), s) ==
    LET hits == {i \in 1..Len(s) : P(s[i])}
    IN  IF hits = {} THEN <<>> ELSE << s[CHOOSE i \in hits : \A j \in hits : i <= j] >>

\* a lookup that compares the names as they are
getExisting_Exact(tagName) ==
    LET Same(t) == t.name = tagName IN find(Same, tags)

\* a lookup that folds case only (the strict-fold rule)
getExisting_CaseOnly(tagName) ==
    LET Same(t) == toLowerCase(t.name) = toLowerCase(tagName) IN find(Same, tags)

getExisting(tagName) ==
    LET Same(t) == equalsIgnoreCaseAndAccents(t.name, tagName) IN find(Same, tags)

\* a tag object that stores the folded name
newTagObj_Normalizes(tagName, id, now) ==
    [id |-> id,
     name |-> Normalized(tagName),
     folder_type |-> "TAG_FOLDER_DEFAULT_TYPE",
     filter_state |-> "DEFAULT_FILTER_STATE",
     sort_order |-> MathMax({0} \cup {tags[i].sort_order : i \in 1..Len(tags)}) + 1,
     color |-> "",
     color2 |-> "",
     create_date |-> now]

\* a tag object ordered by the collection's length
newTagObj_LengthOrder(tagName, id, now) ==
    [id |-> id,
     name |-> tagName,
     folder_type |-> "TAG_FOLDER_DEFAULT_TYPE",
     filter_state |-> "DEFAULT_FILTER_STATE",
     sort_order |-> Len(tags) + 1,
     color |-> "",
     color2 |-> "",
     create_date |-> now]

\* newTagObj(tagName), with the id uuidv4() returned and the time Date.now() returned
newTagObj(tagName, id, now) ==
    [id |-> id,
     name |-> tagName,
     folder_type |-> "TAG_FOLDER_DEFAULT_TYPE",
     filter_state |-> "DEFAULT_FILTER_STATE",
     sort_order |-> MathMax({0} \cup {tags[i].sort_order : i \in 1..Len(tags)}) + 1,
     color |-> "",
     color2 |-> "",
     create_date |-> now]

\* a createNewTag that puts the new tag first (unshift for push)
createNewTag_Unshift(tagName, id, now) ==
    LET existing == getExisting(tagName)
    IN  IF existing # <<>>
        THEN [tags |-> tags, tag |-> existing[1], saves |-> <<>>]
        ELSE LET tag == newTagObj(tagName, id, now)
                 pushed == <<tag>> \o tags
             IN  [tags |-> pushed, tag |-> tag, saves |-> <<Len(pushed)>>]

\* a createNewTag that requests the save before it pushes
createNewTag_SaveFirst(tagName, id, now) ==
    LET existing == getExisting(tagName)
    IN  IF existing # <<>>
        THEN [tags |-> tags, tag |-> existing[1], saves |-> <<>>]
        ELSE LET tag == newTagObj(tagName, id, now)
                 pushed == Append(tags, tag)
             IN  [tags |-> pushed, tag |-> tag, saves |-> <<Len(tags)>>]

\* createNewTag(tagName): the collection it leaves, the Tag it returns, and the
\* save requests it issues (each recorded with the tags.length it sees)
createNewTag(tagName, id, now) ==
    LET existing == getExisting(tagName)
    IN  IF existing # <<>>
        THEN [tags |-> tags, tag |-> existing[1], saves |-> <<>>]
        ELSE LET tag == newTagObj(tagName, id, now)
                 pushed == Append(tags, tag)
             IN  [tags |-> pushed, tag |-> tag, saves |-> <<Len(pushed)>>]

\* the effect of a createNewTag call on the state
ApplyCreate(r, now) ==
    /\ tags' = r.tags
    /\ saveLog' = saveLog \o r.saves
    /\ pendingSave' = (pendingSave \/ r.saves # <<>>)
    /\ nextId' = IF Len(r.tags) > Len(tags) THEN nextId + 1 ELSE nextId
    /\ clock' = IF Len(r.tags) > Len(tags) THEN now ELSE clock

Nows == {t \in clock..(clock + 1) : t <= MaxClock}

----------------------------------------------------------------------------
(* The commands *)

\* a guard that rejects a missing argument only
TagNewRejects_UndefinedOnly(tagName) == ~tagName.given

\* tag-new: if (!tagName) return 'false'
TagNewRejects(tagName) == ~Truthy(tagName)

\* tag-new callback
TagNew(tagName) ==
    /\ Len(tags) < MaxTags
    /\ cmd' = "tag-new"
    /\ arg' = tagName
    /\ pre' = tags
    /\ preSaves' = Len(saveLog)
    /\ listing' = <<>>
    /\ retTag' = <<>>
    /\ UNCHANGED initial
    /\ IF TagNewRejects(tagName)
       THEN /\ ret' = "false"
            /\ UNCHANGED <<tags, saveLog, pendingSave, clock, nextId, newLog>>
       ELSE LET tag == getExisting(tagName.val)
            IN  IF tag = <<>>
                THEN /\ \E now \in Nows : ApplyCreate(createNewTag(tagName.val, nextId, now), now)
                     /\ ret' = "true"
                     /\ newLog' = Append(newLog, tagName.val)
                ELSE /\ ret' = "false"
                     /\ UNCHANGED <<tags, saveLog, pendingSave, clock, nextId, newLog>>

\* what the tag-exists-all callback returns
TagExistsAllRet(tagName) ==
    IF ~Truthy(tagName) THEN "false"
    ELSE IF getExisting(tagName.val) # <<>> THEN "true" ELSE "false"

\* tag-exists-all callback
TagExistsAll(tagName) ==
    /\ cmd' = "tag-exists-all"
    /\ arg' = tagName
    /\ pre' = tags
    /\ preSaves' = Len(saveLog)
    /\ ret' = TagExistsAllRet(tagName)
    /\ listing' = <<>>
    /\ retTag' = <<>>
    /\ UNCHANGED <<tags, saveLog, pendingSave, clock, nextId, newLog, initial>>

\* a listing that does not sort the filtered names
TagListAllRet_NoSort(search) ==
    IF Truthy(search)
    THEN LET Hit(tag) == includes(toLowerCase(tag.name), toLowerCase(search.val))
         IN  [tags |-> tags, out |-> join(NamesOf(filter(Hit, tags)))]
    ELSE [tags |-> tags, out |-> join(NamesOf(tags))]

\* a listing that sorts the unfiltered names too
TagListAllRet_AlwaysSort(search) ==
    IF Truthy(search)
    THEN LET Hit(tag) == includes(toLowerCase(tag.name), toLowerCase(search.val))
         IN  [tags |-> tags, out |-> join(sort(NamesOf(filter(Hit, tags))))]
    ELSE [tags |-> tags, out |-> join(sort(NamesOf(tags)))]

\* a listing that sorts context.tags itself by name before it filters
TagListAllRet_SortInPlace(search) ==
    IF Truthy(search)
    THEN LET Hit(tag) == includes(toLowerCase(tag.name), toLowerCase(search.val))
             byName == sort(NamesOf(tags))
             sorted == [i \in 1..Len(tags) |->
                          CHOOSE t \in {tags[k] : k \in 1..Len(tags)} : t.name = byName[i]]
         IN  [tags |-> sorted, out |-> join(NamesOf(filter(Hit, sorted)))]
    ELSE [tags |-> tags, out |-> join(NamesOf(tags))]

\* what the tag-list-all callback returns, and the collection it leaves
TagListAllRet(search) ==
    IF Truthy(search)
    THEN LET Hit(tag) == includes(toLowerCase(tag.name), toLowerCase(search.val))
         IN  [tags |-> tags, out |-> join(sort(NamesOf(filter(Hit, tags))))]
    ELSE [tags |-> tags, out |-> join(NamesOf(tags))]

\* tag-list-all callback
TagListAll(search) ==
    /\ cmd' = "tag-list-all"
    /\ arg' = search
    /\ pre' = tags
    /\ preSaves' = Len(saveLog)
    /\ ret' = ""
    /\ listing' = TagListAllRet(search).out
    /\ tags' = TagListAllRet(search).tags
    /\ retTag' = <<>>
    /\ UNCHANGED <<saveLog, pendingSave, clock, nextId, newLog, initial>>

\* a direct call of createNewTag(tagName), as its contract ("the new or existing
\* tag object") allows
CreateNewTagCall(tagName) ==
    /\ Len(tags) < MaxTags
    /\ cmd' = "createNewTag"
    /\ arg' = Str(tagName)
    /\ pre' = tags
    /\ preSaves' = Len(saveLog)
    /\ ret' = ""
    /\ listing' = <<>>
    /\ \E now \in Nows :
          LET r == createNewTag(tagName, nextId, now)
          IN  ApplyCreate(r, now) /\ retTag' = <<r.tag>>
    /\ UNCHANGED <<newLog, initial>>

\* the host's debounce timer fires and the settings are written
FlushSave ==
    /\ pendingSave
    /\ pendingSave' = FALSE
    /\ UNCHANGED <<tags, saveLog, clock, nextId, cmd, arg, ret, listing, retTag,
                   pre, preSaves, newLog, initial>>

Init ==
    /\ tags \in InitialCollections
    /\ initial = tags
    /\ pre = tags
    /\ saveLog = <<>>
    /\ preSaves = 0
    /\ pendingSave = FALSE
    /\ clock = 0
    /\ nextId = 10
    /\ cmd = "init"
    /\ arg = Undefined
    /\ ret = ""
    /\ listing = <<>>
    /\ retTag = <<>>
    /\ newLog = <<>>

DoTagNew == \E a \in NameArgs : TagNew(a)
DoTagExistsAll == \E a \in NameArgs : TagExistsAll(a)
DoTagListAll == \E s \in SearchArgs : TagListAll(s)
DoCreateNewTag == \E n \in Names : CreateNewTagCall(n)

\* the extension as the host drives it: the three commands
Next == DoTagNew \/ DoTagExistsAll \/ DoTagListAll \/ FlushSave
Spec == Init /\ [][Next]_vars

\* the commands, and createNewTag called on its own
NextApi == DoTagNew \/ DoTagExistsAll \/ DoTagListAll \/ DoCreateNewTag \/ FlushSave
SpecApi == Init /\ [][NextApi]_vars

----------------------------------------------------------------------------
(* Vocabulary of the properties *)

FoldEqual(a, b) == Normalized(a) = Normalized(b)

IsPrefix(a, b) == Len(a) <= Len(b) /\ SubSeq(b, 1, Len(a)) = a

\* some record of ts has a name fold-equal to n
HasFoldEqual(ts, n) == \E i \in 1..Len(ts) : FoldEqual(ts[i].name, n)

\* whitespace only (the empty string included)
IsBlank(s) == \A i \in 1..Len(s) : s[i] = "sp"

\* the records whose name contains the search string, case-insensitively
MatchingRecords(search) ==
    {i \in 1..Len(tags) : includes(toLowerCase(tags[i].name), toLowerCase(search))}

MatchingNames(search) == {tags[i].name : i \in MatchingRecords(search)}

\* the names of M in ascending order: the i-th is the one with i-1 names below it
Ascending(M) ==
    [i \in 1..Cardinality(M) |->
        CHOOSE x \in M : Cardinality({y \in M : StrLess(y, x)}) = i - 1]

\* the listing of the matching names, each once, ascending
SortedListing(search) ==
    /\ Cardinality(MatchingNames(search)) = Cardinality(MatchingRecords(search))
    /\ listing = join(Ascending(MatchingNames(search)))

----------------------------------------------------------------------------
(* C1 *)

\* C1: no two records of the collection have fold-equal names, and every name
\* tag-new created is the name of exactly one record, tag-new never having
\* created two fold-equal names.
C1_Unique ==
    /\ \A i, j \in 1..Len(tags) : i # j => ~FoldEqual(tags[i].name, tags[j].name)
    /\ \A i, j \in 1..Len(newLog) : i # j => ~FoldEqual(newLog[i], newLog[j])
    /\ \A i \in 1..Len(newLog) :
          Cardinality({k \in 1..Len(tags) : FoldEqual(tags[k].name, newLog[i])}) = 1

\* a second tag-new with a fold-equal, differently written name was refused
C1_Witness ==
    /\ cmd = "tag-new" /\ ret = "false" /\ Truthy(arg)
    /\ \E i \in 1..Len(newLog) : newLog[i] # arg.val /\ FoldEqual(newLog[i], arg.val)

(* C2 *)

\* C2: tag-new returns "true" exactly when it appended one record, last in the
\* collection and named as the argument; it returns "false" exactly when the name
\* is empty or a fold-equal record existed, and then the collection is unchanged.
C2_TagNewResult ==
    cmd = "tag-new" =>
        /\ ret \in {"true", "false"}
        /\ (ret = "true") <=>
              /\ Len(tags) = Len(pre) + 1
              /\ IsPrefix(pre, tags)
              /\ tags[Len(tags)].name = arg.val
        /\ (ret = "false") <=> (~Truthy(arg) \/ HasFoldEqual(pre, arg.val))
        /\ (ret = "false") => tags = pre

\* tag-new created a record in a collection that already held others
C2_Witness ==
    cmd = "tag-new" /\ ret = "true" /\ Len(pre) > 0 /\ Len(tags) = Len(pre) + 1

(* C3 *)

\* C3 as stated: after createNewTag(n), getExisting(n) returns a record named
\* exactly n, for every n and every collection.
C3_Original ==
    cmd = "createNewTag" =>
        /\ getExisting(arg.val) # <<>>
        /\ getExisting(arg.val)[1].name = arg.val

\* C3: after createNewTag(n), getExisting(n) returns the record createNewTag
\* returned, whose name is fold-equal to n; it is exactly n when no fold-equal
\* record existed before the call, and it is that earlier record otherwise.
C3_LookupAfterCreate ==
    cmd = "createNewTag" =>
        /\ getExisting(arg.val) # <<>>
        /\ getExisting(arg.val) = retTag
        /\ FoldEqual(getExisting(arg.val)[1].name, arg.val)
        /\ ~HasFoldEqual(pre, arg.val) => getExisting(arg.val)[1].name = arg.val
        /\ HasFoldEqual(pre, arg.val) =>
              \E i \in 1..Len(pre) : pre[i] = getExisting(arg.val)[1]

\* createNewTag created a record whose name is not its own fold
C3_Witness ==
    /\ cmd = "createNewTag"
    /\ Len(tags) = Len(pre) + 1
    /\ Normalized(arg.val) # arg.val
    /\ getExisting(arg.val)[1].name = arg.val

(* C4 *)

\* C4 as stated: tag-new with an empty or whitespace-only name returns "false",
\* leaves the collection unchanged and requests no save.
C4_Original ==
    (cmd = "tag-new" /\ IsBlank(arg.val)) =>
        ret = "false" /\ tags = pre /\ Len(saveLog) = preSaves

\* C4: tag-new with an empty or missing name returns "false", leaves the
\* collection unchanged and requests no save; a whitespace-only name that is not
\* empty is a name like any other, created unless a fold-equal record exists.
C4_EmptyRejected ==
    /\ (cmd = "tag-new" /\ ~Truthy(arg)) =>
          ret = "false" /\ tags = pre /\ Len(saveLog) = preSaves
    /\ (cmd = "tag-new" /\ Truthy(arg) /\ IsBlank(arg.val)) =>
          ((ret = "true") <=> ~HasFoldEqual(pre, arg.val))

\* tag-new was given the empty string while the collection held records
C4_Witness ==
    cmd = "tag-new" /\ arg = Str(<<>>) /\ tags # <<>> /\ ret = "false"

(* C5 *)

\* C5 as stated: for any supplied search string, tag-list-all returns the names
\* containing it (case-insensitively), each once, ascending, joined with ", ".
C5_Original ==
    (cmd = "tag-list-all" /\ arg.given) => SortedListing(arg.val)

\* C5: for any non-empty search string, tag-list-all returns the names containing
\* it (case-insensitively), each once, ascending, joined with ", "; the empty
\* search string is treated as no search: all names in collection order.
C5_FilteredSorted ==
    /\ (cmd = "tag-list-all" /\ Truthy(arg)) => SortedListing(arg.val)
    /\ (cmd = "tag-list-all" /\ arg.given /\ arg.val = <<>>) =>
          listing = join(NamesOf(tags))

\* a search that left a record out and whose matches are not in insertion order
C5_Witness ==
    /\ cmd = "tag-list-all" /\ Truthy(arg)
    /\ Cardinality(MatchingRecords(arg.val)) >= 2
    /\ Cardinality(MatchingRecords(arg.val)) < Len(tags)
    /\ \E i, j \in MatchingRecords(arg.val) : i < j /\ StrLess(tags[j].name, tags[i].name)

(* C6 *)

\* C6: without a search argument tag-list-all returns all names in collection
\* order, joined with ", ": the loaded names followed by the names tag-new
\* created, in creation order (from an empty collection, exactly those).
C6_Unfiltered ==
    (cmd = "tag-list-all" /\ ~arg.given) =>
        /\ listing = join(NamesOf(tags))
        /\ listing = join(NamesOf(initial) \o newLog)
        /\ initial = <<>> => listing = join(newLog)

\* a listing of two tags created, from empty, in an order that is not ascending
C6_Witness ==
    /\ cmd = "tag-list-all" /\ ~arg.given
    /\ initial = <<>>
    /\ Len(newLog) >= 2
    /\ StrLess(newLog[2], newLog[1])

(* C7 *)

C8_Exists ==
    /\ (cmd = "tag-exists-all" /\ Truthy(arg)) =>
          ((ret = "true") <=> HasFoldEqual(tags, arg.val)) /\ ret \in {"true", "false"}
    /\ (cmd = "tag-exists-all" /\ ~Truthy(arg)) => ret = "false"
    /\ (cmd = "tag-new" /\ Truthy(arg)) => TagExistsAllRet(arg) = "true"

\* tag-exists-all answered "true" for a name no record has as written, one that
\* differs from a record's name in a diacritic
C8_Witness ==
    /\ cmd = "tag-exists-all" /\ ret = "true"
    /\ \A i \in 1..Len(tags) : tags[i].name # arg.val
    /\ \E i \in 1..Len(tags) : toLowerCase(tags[i].name) # toLowerCase(arg.val)
                                /\ FoldEqual(tags[i].name, arg.val)

(* C9 *)

\* C9: the collection before an invocation is a prefix of the collection after
\* it, every earlier record unchanged; tag-exists-all and tag-list-all leave the
\* collection as it was.
C9_AppendOnly ==
    /\ IsPrefix(pre, tags)
    /\ IsPrefix(initial, tags)
    /\ cmd \in {"tag-exists-all", "tag-list-all"} => tags = pre

\* a filtered listing that had to reorder the names it returned
C9_Witness ==
    /\ cmd = "tag-list-all" /\ Truthy(arg) /\ tags = pre
    /\ \E i, j \in MatchingRecords(arg.val) : i < j /\ StrLess(tags[j].name, tags[i].name)
    /\ Len(tags) > Len(initial)

(* C10 *)

\* C10: an invocation requests one save per record it appends and none when it
\* appends nothing; each request sees the appended record in the collection; the
\* requests number the records appended; and createNewTag called again right
\* after a tag-new or createNewTag finds the record and appends nothing,
\* whether or not a save is pending.
C10_SavePerAppend ==
    /\ Len(saveLog) - preSaves = Len(tags) - Len(pre)
    /\ Len(saveLog) - preSaves \in {0, 1}
    /\ Len(saveLog) = Len(tags) - Len(initial)
    /\ \A k \in 1..Len(saveLog) : saveLog[k] = Len(initial) + k
    /\ (cmd \in {"tag-new", "createNewTag"} /\ (cmd = "tag-new" => Truthy(arg))) =>
          /\ createNewTag(arg.val, nextId, clock).tags = tags
          /\ createNewTag(arg.val, nextId, clock).saves = <<>>

\* createNewTag found a record the extension had created, its save still pending
C10_Witness ==
    /\ cmd = "createNewTag" /\ tags = pre /\ Len(saveLog) = preSaves
    /\ pendingSave
    /\ \A i \in 1..Len(initial) : initial[i] # retTag[1]

====
